---- MODULE Spec2Model ----
(***************************************************************************)
(* Model of the capture scheduler of myscreenshot-tool (gui/gui.go) and of *)
(* package screenshot: the file naming of SaveScreenshotWithCounter,       *)
(* CaptureWindow with bitmapToImage, and GetWindowList.                    *)
(*                                                                         *)
(* Spec is the scheduler; SpecCapture one CaptureWindow call; SpecName the *)
(* derivation of file paths; SpecWindows the calls of GetWindowList.       *)
(*                                                                         *)
(* Tasks: the UI thread (button handlers startCapture / stopCapture), one   *)
(* capture-loop goroutine per accepted start, and the progress-reporter    *)
(* goroutine each capture loop spawns.  The settings are fixed during a    *)
(* run; the window-closed callback, after which the process exits, is not  *)
(* modelled.                                                               *)
(* Every goroutine is identified by the number of the start that launched  *)
(* it; the context created by that start carries the same number.          *)
(*                                                                         *)
(* Time is the wall clock in whole seconds.  time.Time.Second() is the     *)
(* second within the minute.  Capture and save latencies are arbitrary;    *)
(* the order in which runnable goroutines run is arbitrary, but a runnable *)
(* goroutine runs before the clock moves.                                  *)
(***************************************************************************)
EXTENDS Integers, Sequences, FiniteSets

(* ---- bounds ---- *)
MaxLoops == 2        \* capture loops (accepted starts) per run
MaxCaptures == 2     \* successful saves per capture loop
MaxClockSteps == 1   \* advances of the wall clock per run
MaxLateTicks == 2    \* cap of the count of ticks taken after expiry
MaxWidth == 2        \* width of the window rectangle, pixels
MaxHeight == 2       \* height of the window rectangle, pixels
MaxNameCalls == 2    \* naming calls compared
MaxWindows == 2      \* top-level windows in one enumeration
MaxListCalls == 2    \* GetWindowList calls per run

(* ---- program constants ---- *)
SecondsPerMinute == 60
MillisPerSecond == 1000
PadWidth == 4
BytesPerPixel == 4

Loops == 1..MaxLoops
NoCtx == 0                      \* nil context / nil cancel function
MuFree == 0                     \* CaptureMu unlocked
MuUI == -1                      \* CaptureMu held by the UI thread
NoTick == -1                    \* ticker.C is empty
NoTimer == -1                   \* timer is nil
NoObject == 0                   \* a NULL handle returned by SelectObject
StockObject == 1                \* the object a new memory DC holds

IntervalValues == {0, 100, 60000}   \* Config.IntervalMs (milliseconds)
DurationValues == {0, 1}            \* Config.CaptureDuration (minutes)
WindowHandles == {1}                \* handles GetWindowList can offer

VARIABLES
    IsCapturing,         \* AppContext.IsCapturing
    CaptureMu,           \* AppContext.CaptureMu: MuFree, MuUI or a loop id
    CaptureCtx,          \* AppContext.CaptureCtx: id of the context, NoCtx = nil
    CaptureStop,         \* AppContext.CaptureStop: id of the context it cancels
    ctxDone,             \* contexts whose Done channel is closed
    IntervalMs,          \* Config.IntervalMs
    CaptureDuration,     \* Config.CaptureDuration
    selectedHWND,        \* AppContext.selectedWindowInfo.HWND
    uiPc,                \* position of the UI thread
    now,                 \* wall clock, seconds
    nLoops,              \* capture loops launched so far
    pc,                  \* position of each capture loop
    interval,            \* runCaptureLoop local
    captureDuration,     \* runCaptureLoop local (minutes)
    timer,               \* runCaptureLoop local: expiry time of the timer, NoTimer = nil
    lastSecond,          \* runCaptureLoop local
    captureCount,        \* runCaptureLoop local
    fileSequenceCounter, \* runCaptureLoop local
    tickC,               \* ticker.C: buffered tick time or NoTick
    lastFire,            \* time the ticker last fired (or was created)
    waitCtx,             \* context whose Done channel the loop's select waits on
    repPc,               \* position of each progress reporter
    repCtx,              \* context whose Done channel the reporter's select waits on
    saved,               \* file paths written by the successful saves of each running loop
    prevTick,            \* time of the tick the loop processed last (start time before the first)
    lateTicks,           \* ticks the loop took while its expiry timer was ready
    captureCountLabel,   \* AppContext.captureCountLabel: the count it shows
    cwPc,                \* position of the CaptureWindow call under study
    width,               \* CaptureWindow local
    height,              \* CaptureWindow local
    acquired,            \* times each graphics resource was acquired by the call
    released,            \* times each graphics resource was released by the call
    cwDefers,            \* deferred calls of CaptureWindow, last deferred first
    bmDefers,            \* deferred calls of bitmapToImage, last deferred first
    calls,               \* OS calls the CaptureWindow call has made, in order
    oldBitmap,           \* CaptureWindow local: what SelectObject returned
    selected,            \* object selected into memDC
    pixelData,           \* bitmapToImage local: the extracted BGRA buffer
    imgPix,              \* img.Pix of the image bitmapToImage builds
    x,                   \* bitmapToImage loop variable
    y,                   \* bitmapToImage loop variable
    written,             \* pixel indexes the loop has rewritten, in order
    convResult,          \* how bitmapToImage returned
    cwResult,            \* how CaptureWindow returned
    nameCalls,           \* the naming calls studied: arguments, clock reading, path
    windowList,          \* package variable windowList (a slice)
    heap,                \* the arrays that slices of WindowInfo point into
    listCalls            \* the GetWindowList calls made: enumeration and result

uiVars == <<IsCapturing, CaptureMu, CaptureCtx, CaptureStop, ctxDone, uiPc, nLoops>>
capVars == <<cwPc, width, height, acquired, released, cwDefers, bmDefers, calls,
             oldBitmap, selected, pixelData, imgPix, x, y, written, convResult,
             cwResult>>
winVars == <<windowList, heap, listCalls>>
shotVars == <<capVars, nameCalls, winVars>>
cfgVars == <<IntervalMs, CaptureDuration, selectedHWND>>
loopLocals == <<interval, captureDuration, timer, lastSecond, captureCount,
                fileSequenceCounter, waitCtx, prevTick, lateTicks>>
tickerVars == <<tickC, lastFire>>
repVars == <<repPc, repCtx>>
vars == <<IsCapturing, CaptureMu, CaptureCtx, CaptureStop, ctxDone, IntervalMs,
          CaptureDuration, selectedHWND, uiPc, now, nLoops, pc, interval,
          captureDuration, timer, lastSecond, captureCount, fileSequenceCounter,
          tickC, lastFire, waitCtx, repPc, repCtx, saved, prevTick, lateTicks,
          captureCountLabel, shotVars>>

(* ---- pure helpers ---- *)

\* time.Time.Second(): the second offset within the minute, 0..59
Second(t) == t % SecondsPerMinute

\* Config.GetIntervalDuration, in milliseconds
GetIntervalDuration(ms) == ms

\* Config.GetCaptureDuration, in seconds
GetCaptureDuration(minutes) == minutes * SecondsPerMinute

\* time.Now().Format("2006-01-02_15-04-05"): day, hour, minute, second fields
Timestamp(t) ==
    <<t \div (24 * SecondsPerMinute * SecondsPerMinute),
      (t \div (SecondsPerMinute * SecondsPerMinute)) % 24,
      (t \div SecondsPerMinute) % SecondsPerMinute,
      t % SecondsPerMinute>>

RECURSIVE Digits(_)
Digits(n) == IF n < 10 THEN <<n>> ELSE Digits(n \div 10) \o <<n % 10>>

\* a counter cut to its last four digits
Pad4Mutant(n) == [i \in 1..PadWidth |-> (n \div (10 ^ (PadWidth - i))) % 10]

\* fmt "%04d": decimal digits, zero-padded on the left to at least four
Pad4(n) ==
    LET d == Digits(n)
    IN  IF Len(d) >= PadWidth THEN d ELSE [i \in 1..(PadWidth - Len(d)) |-> 0] \o d

\* the path SaveScreenshotWithCounter writes: screenshot_<timestamp>_<counter>.png
FileName(t, counter) == <<"screenshot_", Timestamp(t), "_", Pad4(counter), ".png">>

(* ---- loop positions ---- *)
\* positions inside the for loop of runCaptureLoop: the ticker is armed
Steady == {"select", "capture", "capture_failed", "save", "save_failed"}
\* positions of a goroutine that has been launched and has not finished
Live == {"init", "defer", "defer_locked"} \cup Steady

TickerArmed(l) == pc[l] \in Steady

\* whole seconds of the ticker period, rounded down and up
IntervalFloor(l) == interval[l] \div MillisPerSecond
IntervalCeil(l) == (interval[l] + MillisPerSecond - 1) \div MillisPerSecond

\* an expiry case without the nil-timer and zero-duration guards
TimerReadyMutant(l) == now >= timer[l]

\* gui.go:377-381, 414-420  the expiry timer exists (a duration is set) and its
\* channel is ready
TimerReady(l) ==
    /\ timer[l] # NoTimer
    /\ now >= timer[l]
    /\ captureDuration[l] > 0

\* gui.go:377-381  time.NewTimer(captureDuration) when a duration is set
NewTimer(minutes) ==
    IF minutes > 0 THEN now + GetCaptureDuration(minutes) ELSE NoTimer

\* gui.go:48-81  the scheduler after NewApp: idle, no context, no capture loop
SessionIdle ==
    /\ IsCapturing = FALSE
    /\ CaptureMu = MuFree
    /\ CaptureCtx = NoCtx
    /\ CaptureStop = NoCtx
    /\ ctxDone = {}
    /\ uiPc = "idle"
    /\ now = 0
    /\ nLoops = 0
    /\ pc = [l \in Loops |-> "none"]
    /\ interval = [l \in Loops |-> 0]
    /\ captureDuration = [l \in Loops |-> 0]
    /\ timer = [l \in Loops |-> NoTimer]
    /\ lastSecond = [l \in Loops |-> 0]
    /\ captureCount = [l \in Loops |-> 0]
    /\ fileSequenceCounter = [l \in Loops |-> 0]
    /\ tickC = [l \in Loops |-> NoTick]
    /\ lastFire = [l \in Loops |-> 0]
    /\ waitCtx = [l \in Loops |-> NoCtx]
    /\ repPc = [l \in Loops |-> "none"]
    /\ repCtx = [l \in Loops |-> NoCtx]
    /\ saved = [l \in Loops |-> {}]
    /\ prevTick = [l \in Loops |-> 0]
    /\ lateTicks = [l \in Loops |-> 0]
    /\ captureCountLabel = 0

\* graphics resources a CaptureWindow call acquires
Resources == {"windowDC", "memDC", "hBitmap", "desktopHDC"}

\* part_000:122-123  the frame of a CaptureWindow call at position p, before any
\* of its statements has run
CaptureFrame(p) ==
    /\ cwPc = p
    /\ width = 0
    /\ height = 0
    /\ acquired = [r \in Resources |-> 0]
    /\ released = [r \in Resources |-> 0]
    /\ cwDefers = <<>>
    /\ bmDefers = <<>>
    /\ calls = <<>>
    /\ oldBitmap = NoObject
    /\ selected = "stock"
    /\ pixelData = <<>>
    /\ imgPix = <<>>
    /\ x = 0
    /\ y = 0
    /\ written = <<>>
    /\ convResult = "none"
    /\ cwResult = "none"

\* no naming call has been studied
NameIdle == nameCalls = <<>>

\* part_000:61  var windowList []WindowInfo: nil, and no array allocated
WindowsIdle ==
    /\ windowList = [arr |-> 0, len |-> 0, cap |-> 0]
    /\ heap = <<>>
    /\ listCalls = <<>>

Init ==
    /\ SessionIdle
    /\ IntervalMs \in IntervalValues
    /\ CaptureDuration \in DurationValues
    /\ selectedHWND \in {0} \cup WindowHandles
    /\ CaptureFrame("idle")
    /\ NameIdle
    /\ WindowsIdle


(* ---- the UI thread: startCapture ---- *)

\* the button states set by updateControlButtons are not modelled: the handlers
\* can be invoked in any state and guard themselves with IsCapturing

\* a critical section that ends without releasing the lock
UnlockMutant(holder) == holder

\* gui.go:307, 311, 334, 341, 353  ac.CaptureMu.Unlock()
Unlock(holder) == MuFree

\* gui.go:305  ac.CaptureMu.Lock()
StartLock ==
    /\ uiPc = "idle"
    /\ nLoops < MaxLoops
    /\ CaptureMu = MuFree
    /\ CaptureMu' = MuUI
    /\ uiPc' = "start_locked"
    /\ UNCHANGED <<IsCapturing, CaptureCtx, CaptureStop, ctxDone, nLoops, now, pc, saved>>
    /\ UNCHANGED <<cfgVars, shotVars, captureCountLabel, loopLocals, tickerVars, repVars>>

\* startCapture without its re-entrancy test
AlreadyCapturingMutant == FALSE

\* gui.go:306  the re-entrancy test of startCapture
AlreadyCapturing == IsCapturing

\* gui.go:306-311  already capturing: unlock and return; otherwise set the flag
StartCheck ==
    /\ uiPc = "start_locked"
    /\ CaptureMu' = Unlock(CaptureMu)
    /\ IF AlreadyCapturing
          THEN /\ uiPc' = "idle"
               /\ UNCHANGED IsCapturing
          ELSE /\ IsCapturing' = TRUE
               /\ uiPc' = "start_body"
    /\ UNCHANGED <<CaptureCtx, CaptureStop, ctxDone, nLoops, now, pc, saved>>
    /\ UNCHANGED <<cfgVars, shotVars, captureCountLabel, loopLocals, tickerVars, repVars>>

\* gui.go:313-327  show a count of 0; no window selected: stopCapture(); else new
\* context and go runCaptureLoop()
StartBody ==
    /\ uiPc = "start_body"
    /\ captureCountLabel' = 0
    /\ IF selectedHWND = 0
          THEN /\ uiPc' = "start_stop"
               /\ UNCHANGED <<CaptureCtx, CaptureStop, nLoops, pc>>
          ELSE /\ nLoops' = nLoops + 1
               /\ CaptureCtx' = nLoops + 1
               /\ CaptureStop' = nLoops + 1
               /\ pc' = [pc EXCEPT ![nLoops + 1] = "init"]
               /\ uiPc' = "idle"
    /\ UNCHANGED <<IsCapturing, CaptureMu, ctxDone, now, saved>>
    /\ UNCHANGED <<cfgVars, shotVars, loopLocals, tickerVars, repVars>>

(* ---- the UI thread: stopCapture (from the button, or called by startCapture) ---- *)

\* gui.go:332  ac.CaptureMu.Lock()
StopLock ==
    /\ \/ uiPc = "idle" /\ uiPc' = "stop_locked"
       \/ uiPc = "start_stop" /\ uiPc' = "start_stop_locked"
    /\ CaptureMu = MuFree
    /\ CaptureMu' = MuUI
    /\ UNCHANGED <<IsCapturing, CaptureCtx, CaptureStop, ctxDone, nLoops, now, pc, saved>>
    /\ UNCHANGED <<cfgVars, shotVars, captureCountLabel, loopLocals, tickerVars, repVars>>

\* gui.go:338-340  CaptureStop() closes the Done channel of the context it belongs to
Cancelled == IF CaptureStop # NoCtx THEN ctxDone \cup {CaptureStop} ELSE ctxDone

\* gui.go:333-341  not capturing: unlock and return; otherwise clear the flag and cancel
StopCheck ==
    /\ uiPc \in {"stop_locked", "start_stop_locked"}
    /\ CaptureMu' = Unlock(CaptureMu)
    /\ uiPc' = "idle"
    /\ IF ~IsCapturing
          THEN UNCHANGED <<IsCapturing, ctxDone>>
          ELSE /\ IsCapturing' = FALSE
               /\ ctxDone' = Cancelled
    /\ UNCHANGED <<CaptureCtx, CaptureStop, nLoops, now, pc, saved>>
    /\ UNCHANGED <<cfgVars, shotVars, captureCountLabel, loopLocals, tickerVars, repVars>>

(* ---- the capture loop goroutine: runCaptureLoop ---- *)

\* the frame of a loop that has returned: its locals, ticker and timer are gone
\* (gui.go:375, 380: the deferred ticker.Stop and timer.Stop run at the return)
Returned(l) ==
    /\ pc' = [pc EXCEPT ![l] = "defer"]
    /\ interval' = [interval EXCEPT ![l] = 0]
    /\ captureDuration' = [captureDuration EXCEPT ![l] = 0]
    /\ timer' = [timer EXCEPT ![l] = NoTimer]
    /\ lastSecond' = [lastSecond EXCEPT ![l] = 0]
    /\ captureCount' = [captureCount EXCEPT ![l] = 0]
    /\ fileSequenceCounter' = [fileSequenceCounter EXCEPT ![l] = 0]
    /\ waitCtx' = [waitCtx EXCEPT ![l] = NoCtx]
    /\ prevTick' = [prevTick EXCEPT ![l] = 0]
    /\ lateTicks' = [lateTicks EXCEPT ![l] = 0]
    /\ tickC' = [tickC EXCEPT ![l] = NoTick]
    /\ lastFire' = [lastFire EXCEPT ![l] = 0]
    /\ saved' = [saved EXCEPT ![l] = {}]

\* gui.go:358-407  read the settings; a non-positive interval returns at once,
\* and so does a failure of os.MkdirAll; otherwise arm the ticker (and the timer
\* when a duration is set), zero the counters, record the start second, spawn
\* the reporter and enter the select
LoopInit(l, ok) ==
    /\ pc[l] = "init"
    /\ IF GetIntervalDuration(IntervalMs) <= 0 \/ ~ok
          THEN /\ Returned(l)
               /\ UNCHANGED repVars
          ELSE /\ pc' = [pc EXCEPT ![l] = "select"]
               /\ interval' = [interval EXCEPT ![l] = GetIntervalDuration(IntervalMs)]
               /\ captureDuration' = [captureDuration EXCEPT ![l] = CaptureDuration]
               /\ tickC' = [tickC EXCEPT ![l] = NoTick]
               /\ lastFire' = [lastFire EXCEPT ![l] = now]
               /\ timer' = [timer EXCEPT ![l] = NewTimer(CaptureDuration)]
               /\ captureCount' = [captureCount EXCEPT ![l] = 0]
               /\ fileSequenceCounter' = [fileSequenceCounter EXCEPT ![l] = 0]
               /\ lastSecond' = [lastSecond EXCEPT ![l] = Second(now)]
               /\ prevTick' = [prevTick EXCEPT ![l] = now]
               /\ repPc' = [repPc EXCEPT ![l] = "wait"]
               /\ repCtx' = [repCtx EXCEPT ![l] = CaptureCtx]
               /\ waitCtx' = [waitCtx EXCEPT ![l] = CaptureCtx]
               /\ UNCHANGED <<lateTicks, saved>>
    /\ UNCHANGED <<uiVars, cfgVars, shotVars, captureCountLabel, now>>

\* time.Ticker: a tick is due one period after the previous one; its time is
\* put into the one-slot channel (a tick that finds the slot full is dropped)
TickFire(l) ==
    /\ TickerArmed(l)
    /\ tickC[l] = NoTick
    /\ now >= lastFire[l] + IntervalFloor(l)
    /\ tickC' = [tickC EXCEPT ![l] = now]
    /\ lastFire' = [lastFire EXCEPT ![l] = now]
    /\ UNCHANGED <<uiVars, cfgVars, shotVars, captureCountLabel, loopLocals, repVars, now, pc, saved>>

\* gui.go:424  ticker.C holds a tick (the model stops taking ticks at MaxCaptures)
TickReady(l) == tickC[l] # NoTick /\ captureCount[l] < MaxCaptures

\* gui.go:411-413  case <-ac.CaptureCtx.Done(): return
LoopCancel(l) ==
    /\ pc[l] = "select"
    /\ waitCtx[l] \in ctxDone
    /\ Returned(l)
    /\ UNCHANGED <<uiVars, cfgVars, shotVars, captureCountLabel, repVars, now>>

\* gui.go:414-423  case <-timer.C: return
LoopExpire(l) ==
    /\ pc[l] = "select"
    /\ TimerReady(l)
    /\ Returned(l)
    /\ UNCHANGED <<uiVars, cfgVars, shotVars, captureCountLabel, repVars, now>>

\* gui.go:426-430  the counter after the rollover test of a tick with time t
TickReset(l, t) ==
    IF Second(t) # lastSecond[l] THEN 0 ELSE fileSequenceCounter[l]

\* gui.go:424-432  case t := <-ticker.C: rollover test, then call CaptureWindow
LoopTick(l) ==
    /\ pc[l] = "select"
    /\ TickReady(l)
    /\ fileSequenceCounter' = [fileSequenceCounter EXCEPT ![l] = TickReset(l, tickC[l])]
    /\ lastSecond' = [lastSecond EXCEPT ![l] = Second(tickC[l])]
    /\ prevTick' = [prevTick EXCEPT ![l] = tickC[l]]
    /\ lateTicks' = [lateTicks EXCEPT ![l] =
                        IF TimerReady(l) /\ @ < MaxLateTicks THEN @ + 1 ELSE @]
    /\ tickC' = [tickC EXCEPT ![l] = NoTick]
    /\ pc' = [pc EXCEPT ![l] = "capture"]
    /\ UNCHANGED <<interval, captureDuration, timer, captureCount, waitCtx, lastFire>>
    /\ UNCHANGED <<uiVars, cfgVars, shotVars, captureCountLabel, repVars, now, saved>>

\* gui.go:432-438  where the loop goes when CaptureWindow returns
AfterCapture(ok) == IF ok THEN "save" ELSE "capture_failed"

\* gui.go:432-433  CaptureWindow returns an image or an error
CaptureDone(l, ok) ==
    /\ pc[l] = "capture"
    /\ pc' = [pc EXCEPT ![l] = AfterCapture(ok)]
    /\ UNCHANGED <<uiVars, cfgVars, shotVars, captureCountLabel, loopLocals, tickerVars, repVars, now, saved>>

\* gui.go:438-439, part_000:184-203  where the loop goes when
\* SaveScreenshotWithCounter returns
AfterSave(ok) == IF ok THEN "select" ELSE "save_failed"

\* a counter that grows whether or not the save succeeded
CountAfterSaveMutant(n, ok) == n + 1

\* gui.go:439-443  a counter after a save: incremented in the else branch only
CountAfterSave(n, ok) == IF ok THEN n + 1 ELSE n

\* gui.go:438-445, part_000:184-206  SaveScreenshotWithCounter names the file by
\* the time of the save and the counter; on success both counters grow and the
\* new count is written to the label; back at the select the loop reads
\* ac.CaptureCtx again
SaveDone(l, ok) ==
    /\ pc[l] = "save"
    /\ captureCount' = [captureCount EXCEPT ![l] = CountAfterSave(@, ok)]
    /\ fileSequenceCounter' = [fileSequenceCounter EXCEPT ![l] = CountAfterSave(@, ok)]
    /\ IF ok
          THEN /\ saved' = [saved EXCEPT ![l] = @ \cup {FileName(now, fileSequenceCounter[l])}]
               /\ captureCountLabel' = captureCount'[l]
          ELSE UNCHANGED <<saved, captureCountLabel>>
    /\ pc' = [pc EXCEPT ![l] = AfterSave(ok)]
    /\ waitCtx' = [waitCtx EXCEPT ![l] = IF AfterSave(ok) = "select" THEN CaptureCtx ELSE @]
    /\ UNCHANGED <<interval, captureDuration, timer, lastSecond, prevTick, lateTicks>>
    /\ UNCHANGED <<uiVars, cfgVars, shotVars, tickerVars, repVars, now>>

\* a capture error that returns from the loop instead of continuing
AfterErrorMutant(p) == IF p = "capture_failed" THEN "defer" ELSE "select"

\* gui.go:434-435, 440  where the loop goes after logging the error of a tick:
\* continue, or the end of the case body
AfterError(p) == "select"

\* gui.go:434-435, 440  log the error; back at the select the loop reads
\* ac.CaptureCtx again
LoopContinue(l) ==
    /\ pc[l] \in {"capture_failed", "save_failed"}
    /\ IF AfterError(pc[l]) = "select"
          THEN /\ pc' = [pc EXCEPT ![l] = "select"]
               /\ waitCtx' = [waitCtx EXCEPT ![l] = CaptureCtx]
               /\ UNCHANGED <<interval, captureDuration, timer, lastSecond, captureCount,
                              fileSequenceCounter, prevTick, lateTicks, tickerVars, saved>>
          ELSE Returned(l)
    /\ UNCHANGED <<uiVars, cfgVars, shotVars, captureCountLabel, repVars, now>>

\* gui.go:350-351  the deferred function takes the lock
LoopDeferLock(l) ==
    /\ pc[l] = "defer"
    /\ CaptureMu = MuFree
    /\ CaptureMu' = l
    /\ pc' = [pc EXCEPT ![l] = "defer_locked"]
    /\ UNCHANGED <<IsCapturing, CaptureCtx, CaptureStop, ctxDone, uiPc, nLoops>>
    /\ UNCHANGED <<cfgVars, shotVars, captureCountLabel, loopLocals, tickerVars, repVars, now, saved>>

\* gui.go:352-353  ac.IsCapturing = false; unlock
LoopDeferReset(l) ==
    /\ pc[l] = "defer_locked"
    /\ IsCapturing' = FALSE
    /\ CaptureMu' = Unlock(CaptureMu)
    /\ pc' = [pc EXCEPT ![l] = "done"]
    /\ UNCHANGED <<CaptureCtx, CaptureStop, ctxDone, uiPc, nLoops>>
    /\ UNCHANGED <<cfgVars, shotVars, captureCountLabel, loopLocals, tickerVars, repVars, now, saved>>

(* ---- the progress reporter goroutine ---- *)

\* gui.go:392-393  case <-ac.CaptureCtx.Done(): return
RepCancel(l) ==
    /\ repPc[l] = "wait"
    /\ repCtx[l] \in ctxDone
    /\ repPc' = [repPc EXCEPT ![l] = "done"]
    /\ repCtx' = [repCtx EXCEPT ![l] = NoCtx]
    /\ UNCHANGED <<uiVars, cfgVars, shotVars, captureCountLabel, loopLocals, tickerVars, now, pc, saved>>

\* gui.go:394-404  case <-time.After(time.Second): write the remaining time to
\* the label; the next select reads ac.CaptureCtx again
RepReport(l) ==
    /\ repPc[l] = "wait"
    /\ repCtx' = [repCtx EXCEPT ![l] = CaptureCtx]
    /\ UNCHANGED <<repPc, uiVars, cfgVars, shotVars, captureCountLabel, loopLocals, tickerVars, now, pc, saved>>

(* ---- the wall clock ---- *)

ClockSteps(t) == (t \div SecondsPerMinute) + (t % SecondsPerMinute)

\* an armed ticker whose channel is empty fires before its period has passed
TickerAllows(l, t) ==
    (TickerArmed(l) /\ tickC[l] = NoTick) => t <= lastFire[l] + IntervalCeil(l)

\* a goroutine that can run does so before the clock moves: a loop lets time
\* pass only inside CaptureWindow or SaveScreenshotWithCounter, or blocked in
\* its select with no case ready
LoopWaits(l) ==
    \/ pc[l] \in {"none", "done", "capture", "save"}
    \/ pc[l] = "select" /\ ~TickReady(l) /\ ~TimerReady(l) /\ waitCtx[l] \notin ctxDone

\* the handlers and the critical sections take no time on this scale
Advance(d) ==
    /\ ClockSteps(now + d) <= MaxClockSteps
    /\ uiPc = "idle"
    /\ CaptureMu = MuFree
    /\ \A l \in Loops : LoopWaits(l) /\ TickerAllows(l, now + d)
    /\ now' = now + d
    /\ UNCHANGED <<uiVars, cfgVars, shotVars, captureCountLabel, loopLocals, tickerVars, repVars, pc, saved>>

Next ==
    \/ StartLock
    \/ StartCheck
    \/ StartBody
    \/ StopLock
    \/ StopCheck
    \/ \E l \in Loops, ok \in BOOLEAN : LoopInit(l, ok)
    \/ \E l \in Loops : TickFire(l)
    \/ \E l \in Loops : LoopCancel(l)
    \/ \E l \in Loops : LoopExpire(l)
    \/ \E l \in Loops : LoopTick(l)
    \/ \E l \in Loops, ok \in BOOLEAN : CaptureDone(l, ok)
    \/ \E l \in Loops, ok \in BOOLEAN : SaveDone(l, ok)
    \/ \E l \in Loops : LoopContinue(l)
    \/ \E l \in Loops : LoopDeferLock(l)
    \/ \E l \in Loops : LoopDeferReset(l)
    \/ \E l \in Loops : RepCancel(l)
    \/ \E l \in Loops : RepReport(l)
    \/ \E d \in {1, SecondsPerMinute} : Advance(d)

Spec == Init /\ [][Next]_vars

TypeOK ==
    /\ IsCapturing \in BOOLEAN
    /\ CaptureMu \in {MuFree, MuUI} \cup Loops
    /\ CaptureCtx \in {NoCtx} \cup Loops
    /\ CaptureStop = CaptureCtx
    /\ ctxDone \subseteq Loops
    /\ nLoops \in 0..MaxLoops
    /\ \A l \in Loops : pc[l] \in Live \cup {"none", "done"}
    /\ \A l \in Loops : repPc[l] \in {"none", "wait", "done"}
    /\ captureCountLabel \in 0..MaxCaptures


(***************************************************************************)
(* screenshot.CaptureWindow and bitmapToImage (unnamed/part_000)           *)
(*                                                                         *)
(* One call, one action per OS call; every OS call can succeed or fail.    *)
(* The conversion loop moves no byte on the strength of its value, so the  *)
(* extracted buffers are built from pixels whose bytes are all different.  *)
(***************************************************************************)

sessionVars == <<IsCapturing, CaptureMu, CaptureCtx, CaptureStop, ctxDone, IntervalMs,
                 CaptureDuration, selectedHWND, uiPc, now, nLoops, pc, interval,
                 captureDuration, timer, lastSecond, captureCount, fileSequenceCounter,
                 tickC, lastFire, waitCtx, repPc, repCtx, saved, prevTick, lateTicks,
                 captureCountLabel>>

\* no session is configured or started while a package function is studied
NoSession ==
    /\ SessionIdle
    /\ IntervalMs = 0
    /\ CaptureDuration = 0
    /\ selectedHWND = 0

\* BGRA pixels GetDIBits can deliver
PixelValues == {<<10, 20, 30, 40>>, <<50, 60, 70, 80>>}

\* the buffers of n pixels
Buffers(n) ==
    {[i \in 1..(n * BytesPerPixel) |->
         p[((i - 1) \div BytesPerPixel) + 1][((i - 1) % BytesPerPixel) + 1]] :
        p \in [1..n -> PixelValues]}

\* a deferred call runs first among those deferred before it
DeferMutant(stack, call) == stack \o <<call>>

\* part_000:137-158, 242  defer: the call runs at the return, last deferred first
Defer(stack, call) == <<call>> \o stack

\* deferred calls that run only when the function returns an image
UnwindMutant(stack, result) == IF result = "image" THEN stack ELSE <<>>

\* part_000:137-158, 242  the deferred calls that run when the function leaves
\* with the given result: all of them, on a return and on a panic alike
Unwind(stack, result) == stack

\* the resource a deferred release call releases
ReleasedBy(call) ==
    CASE call = "ReleaseDC" -> "windowDC"
      [] call = "DeleteDC" -> "memDC"
      [] call = "DeleteObject" -> "hBitmap"
      [] call = "ReleaseDesktopDC" -> "desktopHDC"

\* part_000:126, 135, 142, 149  an early error return of CaptureWindow: its
\* deferred calls run next
CwFail ==
    /\ cwResult' = "error"
    /\ cwPc' = "defers"

\* part_000:124-130  GetWindowRect, then the width and height of the rectangle
CwGetWindowRect(ok, w, h) ==
    /\ cwPc = "GetWindowRect"
    /\ calls' = Append(calls, "GetWindowRect")
    /\ IF ok
          THEN /\ width' = w
               /\ height' = h
               /\ cwPc' = "GetWindowDC"
               /\ UNCHANGED cwResult
          ELSE /\ CwFail
               /\ UNCHANGED <<width, height>>
    /\ UNCHANGED <<acquired, released, cwDefers, bmDefers, oldBitmap, selected,
                   pixelData, imgPix, x, y, written, convResult, sessionVars, nameCalls, winVars>>

\* part_000:133-137  GetWindowDC(hwnd); defer ReleaseDC
CwGetWindowDC(ok) ==
    /\ cwPc = "GetWindowDC"
    /\ calls' = Append(calls, "GetWindowDC")
    /\ IF ok
          THEN /\ acquired' = [acquired EXCEPT !["windowDC"] = @ + 1]
               /\ cwDefers' = Defer(cwDefers, "ReleaseDC")
               /\ cwPc' = "CreateCompatibleDC"
               /\ UNCHANGED cwResult
          ELSE /\ CwFail
               /\ UNCHANGED <<acquired, cwDefers>>
    /\ UNCHANGED <<width, height, released, bmDefers, oldBitmap, selected,
                   pixelData, imgPix, x, y, written, convResult, sessionVars, nameCalls, winVars>>

\* part_000:140-144  CreateCompatibleDC(windowDC); defer DeleteDC
CwCreateCompatibleDC(ok) ==
    /\ cwPc = "CreateCompatibleDC"
    /\ calls' = Append(calls, "CreateCompatibleDC")
    /\ IF ok
          THEN /\ acquired' = [acquired EXCEPT !["memDC"] = @ + 1]
               /\ cwDefers' = Defer(cwDefers, "DeleteDC")
               /\ cwPc' = "CreateCompatibleBitmap"
               /\ UNCHANGED cwResult
          ELSE /\ CwFail
               /\ UNCHANGED <<acquired, cwDefers>>
    /\ UNCHANGED <<width, height, released, bmDefers, oldBitmap, selected,
                   pixelData, imgPix, x, y, written, convResult, sessionVars, nameCalls, winVars>>

\* part_000:147-151  CreateCompatibleBitmap(windowDC, width, height); defer DeleteObject
CwCreateCompatibleBitmap(ok) ==
    /\ cwPc = "CreateCompatibleBitmap"
    /\ calls' = Append(calls, "CreateCompatibleBitmap")
    /\ IF ok
          THEN /\ acquired' = [acquired EXCEPT !["hBitmap"] = @ + 1]
               /\ cwDefers' = Defer(cwDefers, "DeleteObject")
               /\ cwPc' = "SelectObject"
               /\ UNCHANGED cwResult
          ELSE /\ CwFail
               /\ UNCHANGED <<acquired, cwDefers>>
    /\ UNCHANGED <<width, height, released, bmDefers, oldBitmap, selected,
                   pixelData, imgPix, x, y, written, convResult, sessionVars, nameCalls, winVars>>

\* part_000:154-158  SelectObject(memDC, hBitmap): the previous object, or NULL
\* when the selection failed (logged, not an error); defer the restore
CwSelectObject(ok) ==
    /\ cwPc = "SelectObject"
    /\ calls' = Append(calls, "SelectObject")
    /\ oldBitmap' = IF ok THEN StockObject ELSE NoObject
    /\ selected' = IF ok THEN "hBitmap" ELSE selected
    /\ cwDefers' = Defer(cwDefers, "RestoreObject")
    /\ cwPc' = "PrintWindow"
    /\ UNCHANGED <<width, height, acquired, released, bmDefers, pixelData, imgPix,
                   x, y, written, convResult, cwResult, sessionVars, nameCalls, winVars>>

\* a block copy made whatever PrintWindow reported
FallbackMutant(printed) == TRUE

\* part_000:166  the block-copy fallback is taken when PrintWindow returned 0
Fallback(printed) == ~printed

\* part_000:165-166  PrintWindow(hwnd, memDC, PW_RENDERFULLWINDOW)
CwPrintWindow(ok) ==
    /\ cwPc = "PrintWindow"
    /\ calls' = Append(calls, IF ok THEN "PrintWindow" ELSE "PrintWindow failed")
    /\ cwPc' = IF Fallback(ok) THEN "BitBlt" ELSE "bitmapToImage"
    /\ UNCHANGED <<width, height, acquired, released, cwDefers, bmDefers, oldBitmap,
                   selected, pixelData, imgPix, x, y, written, convResult, cwResult,
                   sessionVars, nameCalls, winVars>>

\* part_000:171  BitBlt from windowDC into memDC; its result is not read
CwBitBlt(ok) ==
    /\ cwPc = "BitBlt"
    /\ calls' = Append(calls, "BitBlt")
    /\ cwPc' = "bitmapToImage"
    /\ UNCHANGED <<width, height, acquired, released, cwDefers, bmDefers, oldBitmap,
                   selected, pixelData, imgPix, x, y, written, convResult, cwResult,
                   sessionVars, nameCalls, winVars>>

\* part_000:234-237  GetDesktopWindow
BmGetDesktopWindow(ok) ==
    /\ cwPc = "bitmapToImage"
    /\ calls' = Append(calls, "GetDesktopWindow")
    /\ IF ok
          THEN /\ cwPc' = "GetDesktopDC"
               /\ UNCHANGED convResult
          ELSE /\ convResult' = "error"
               /\ cwPc' = "bmReturn"
    /\ UNCHANGED <<width, height, acquired, released, cwDefers, bmDefers, oldBitmap,
                   selected, pixelData, imgPix, x, y, written, cwResult, sessionVars, nameCalls, winVars>>

\* part_000:238-242  GetWindowDC(desktop); defer ReleaseDC
BmGetWindowDC(ok) ==
    /\ cwPc = "GetDesktopDC"
    /\ calls' = Append(calls, "GetWindowDC(desktop)")
    /\ IF ok
          THEN /\ acquired' = [acquired EXCEPT !["desktopHDC"] = @ + 1]
               /\ bmDefers' = Defer(bmDefers, "ReleaseDesktopDC")
               /\ cwPc' = "GetDIBits"
               /\ UNCHANGED convResult
          ELSE /\ convResult' = "error"
               /\ cwPc' = "bmReturn"
               /\ UNCHANGED <<acquired, bmDefers>>
    /\ UNCHANGED <<width, height, released, cwDefers, oldBitmap, selected, pixelData,
                   imgPix, x, y, written, cwResult, sessionVars, nameCalls, winVars>>

\* part_000:257-277  make the buffer; &pixelData[0] panics on an empty buffer;
\* GetDIBits fills it or fails; image.NewRGBA allocates a zeroed image
BmGetDIBits(ok, buf) ==
    /\ cwPc = "GetDIBits"
    /\ IF width * height * BytesPerPixel = 0
          THEN /\ convResult' = "panic"
               /\ cwPc' = "bmReturn"
               /\ UNCHANGED <<calls, pixelData, imgPix>>
          ELSE /\ calls' = Append(calls, "GetDIBits")
               /\ IF ok
                     THEN /\ pixelData' = buf
                          /\ imgPix' = [i \in 1..(width * height * BytesPerPixel) |-> 0]
                          /\ cwPc' = "pixels"
                          /\ UNCHANGED convResult
                     ELSE /\ convResult' = "error"
                          /\ cwPc' = "bmReturn"
                          /\ UNCHANGED <<pixelData, imgPix>>
    /\ UNCHANGED <<width, height, acquired, released, cwDefers, bmDefers, oldBitmap,
                   selected, x, y, written, cwResult, sessionVars, nameCalls, winVars>>

\* a copy that keeps the channel order of the source
SourceOffsetMutant(c) == c

\* part_000:282-285  the source byte of each channel of a pixel: R from offset 2,
\* G from 1, B from 0, A from 3
SourceOffset(c) == IF c = 0 THEN 2 ELSE IF c = 2 THEN 0 ELSE c

\* part_000:280  idx := (y*width + x) * 4
PixelIndex(yy, xx) == (yy * width + xx) * BytesPerPixel

\* part_000:278-286  one iteration of the inner loop, and the loop counters after it
BmPixel ==
    /\ cwPc = "pixels"
    /\ y < height
    /\ LET idx == PixelIndex(y, x)
       IN  /\ imgPix' = [i \in DOMAIN imgPix |->
                            IF i - 1 \in idx..(idx + BytesPerPixel - 1)
                               THEN pixelData[idx + SourceOffset(i - 1 - idx) + 1]
                               ELSE imgPix[i]]
           /\ written' = Append(written, idx \div BytesPerPixel)
    /\ IF x + 1 < width
          THEN /\ x' = x + 1
               /\ UNCHANGED y
          ELSE /\ x' = 0
               /\ y' = y + 1
    /\ UNCHANGED <<cwPc, width, height, acquired, released, cwDefers, bmDefers, calls,
                   oldBitmap, selected, pixelData, convResult, cwResult, sessionVars, nameCalls, winVars>>

\* part_000:278, 289  the loop ends; return img, nil
BmLoopEnd ==
    /\ cwPc = "pixels"
    /\ y >= height
    /\ convResult' = "image"
    /\ cwPc' = "bmReturn"
    /\ UNCHANGED <<width, height, acquired, released, cwDefers, bmDefers, calls,
                   oldBitmap, selected, pixelData, imgPix, x, y, written, cwResult,
                   sessionVars, nameCalls, winVars>>

\* part_000:242  the deferred ReleaseDC of bitmapToImage runs
BmDeferred ==
    /\ cwPc = "bmReturn"
    /\ Unwind(bmDefers, convResult) # <<>>
    /\ LET call == Head(Unwind(bmDefers, convResult))
       IN  /\ calls' = Append(calls, call)
           /\ released' = [released EXCEPT ![ReleasedBy(call)] = @ + 1]
    /\ bmDefers' = Tail(Unwind(bmDefers, convResult))
    /\ UNCHANGED <<cwPc, width, height, acquired, cwDefers, oldBitmap, selected,
                   pixelData, imgPix, x, y, written, convResult, cwResult, sessionVars, nameCalls, winVars>>

\* part_000:175-180  bitmapToImage has returned: CaptureWindow returns its image,
\* or an error when it returned one (a panic goes on unwinding)
BmReturn ==
    /\ cwPc = "bmReturn"
    /\ Unwind(bmDefers, convResult) = <<>>
    /\ cwResult' = convResult
    /\ cwPc' = "defers"
    /\ UNCHANGED <<width, height, acquired, released, cwDefers, bmDefers, calls,
                   oldBitmap, selected, pixelData, imgPix, x, y, written, convResult,
                   sessionVars, nameCalls, winVars>>

\* part_000:137-158  a deferred call of CaptureWindow runs: the restore of the
\* previous object (which can fail) or a release
CwDeferred(ok) ==
    /\ cwPc = "defers"
    /\ Unwind(cwDefers, cwResult) # <<>>
    /\ LET call == Head(Unwind(cwDefers, cwResult))
       IN  /\ calls' = Append(calls, call)
           /\ IF call = "RestoreObject"
                 THEN /\ selected' = IF ok /\ oldBitmap # NoObject THEN "stock" ELSE selected
                      /\ UNCHANGED released
                 ELSE /\ released' = [released EXCEPT ![ReleasedBy(call)] = @ + 1]
                      /\ UNCHANGED selected
    /\ cwDefers' = Tail(Unwind(cwDefers, cwResult))
    /\ UNCHANGED <<cwPc, width, height, acquired, bmDefers, oldBitmap, pixelData,
                   imgPix, x, y, written, convResult, cwResult, sessionVars, nameCalls, winVars>>

\* part_000:122-181  the call is over
CwReturn ==
    /\ cwPc = "defers"
    /\ Unwind(cwDefers, cwResult) = <<>>
    /\ cwPc' = "returned"
    /\ UNCHANGED <<width, height, acquired, released, cwDefers, bmDefers, calls,
                   oldBitmap, selected, pixelData, imgPix, x, y, written, convResult,
                   cwResult, sessionVars, nameCalls, winVars>>

InitCapture ==
    /\ NoSession
    /\ CaptureFrame("GetWindowRect")
    /\ NameIdle
    /\ WindowsIdle

NextCapture ==
    \/ \E ok \in BOOLEAN, w \in 0..MaxWidth, h \in 0..MaxHeight : CwGetWindowRect(ok, w, h)
    \/ \E ok \in BOOLEAN : CwGetWindowDC(ok)
    \/ \E ok \in BOOLEAN : CwCreateCompatibleDC(ok)
    \/ \E ok \in BOOLEAN : CwCreateCompatibleBitmap(ok)
    \/ \E ok \in BOOLEAN : CwSelectObject(ok)
    \/ \E ok \in BOOLEAN : CwPrintWindow(ok)
    \/ \E ok \in BOOLEAN : CwBitBlt(ok)
    \/ \E ok \in BOOLEAN : BmGetDesktopWindow(ok)
    \/ \E ok \in BOOLEAN : BmGetWindowDC(ok)
    \/ /\ cwPc = "GetDIBits"
       /\ \E ok \in BOOLEAN, buf \in Buffers(width * height) : BmGetDIBits(ok, buf)
    \/ BmPixel
    \/ BmLoopEnd
    \/ BmDeferred
    \/ BmReturn
    \/ \E ok \in BOOLEAN : CwDeferred(ok)
    \/ CwReturn

SpecCapture == InitCapture /\ [][NextCapture]_vars

(***************************************************************************)
(* The file path of screenshot.SaveScreenshotWithCounter                   *)
(***************************************************************************)

\* save directories, clock readings and counter values of the calls studied
SaveDirs == {"shots", "out"}
SaveTimes == {0, 59, 60}
Counters == {0, 7, 9999, 10000, 10007}

\* part_000:193  filepath.Join(saveDir, fileName)
FilePath(dir, t, counter) == <<dir, "/">> \o FileName(t, counter)

\* part_000:190-193  a call with save directory dir and counter n, made when the
\* clock reads t, derives its path
NameFile(dir, t, n) ==
    /\ Len(nameCalls) < MaxNameCalls
    /\ nameCalls' = Append(nameCalls,
                           [saveDir |-> dir, time |-> t, counter |-> n,
                            filePath |-> FilePath(dir, t, n)])
    /\ UNCHANGED <<sessionVars, capVars, winVars>>

InitName ==
    /\ NoSession
    /\ CaptureFrame("idle")
    /\ WindowsIdle
    /\ NameIdle

NextName ==
    /\ Len(nameCalls) < MaxNameCalls
    /\ \E dir \in SaveDirs, t \in SaveTimes, n \in Counters : NameFile(dir, t, n)

SpecName == InitName /\ [][NextName]_vars

(***************************************************************************)
(* screenshot.GetWindowList and EnumWindowsCallback                        *)
(*                                                                         *)
(* A slice is a window [arr, len, cap] onto an array of the heap; append   *)
(* writes in place while the capacity lasts and moves to a new array of    *)
(* twice the capacity when it does not.                                    *)
(***************************************************************************)

\* what the OS can report of a top-level window
Titles == {"", "Program Manager", "Default IME", "Editor"}
OsHandles == {1, 2}
OsWindows == [hwnd : OsHandles, visible : BOOLEAN, title : Titles]

\* the enumerations of at most MaxWindows windows
Enumerations == UNION {[1..n -> OsWindows] : n \in 0..MaxWindows}

\* part_000:61, 97  a nil slice
NilSlice == [arr |-> 0, len |-> 0, cap |-> 0]

\* part_000:55-58  the zero value of WindowInfo
ZeroWindow == [HWND |-> 0, Title |-> ""]

\* the elements a slice shows
Elements(h, s) == IF s.arr = 0 THEN <<>> ELSE SubSeq(h[s.arr], 1, s.len)

\* part_000:91  append(windowList, v): the slice and the heap after it
AppendSlice(st, v) ==
    LET s == st.list
        h == st.heap
    IN  IF s.len < s.cap
           THEN [list |-> [s EXCEPT !.len = @ + 1],
                 heap |-> [h EXCEPT ![s.arr] = [@ EXCEPT ![s.len + 1] = v]]]
           ELSE LET c == IF s.cap = 0 THEN 1 ELSE 2 * s.cap
                    a == [i \in 1..c |-> IF i <= s.len THEN h[s.arr][i]
                                         ELSE IF i = s.len + 1 THEN v ELSE ZeroWindow]
                IN  [list |-> [arr |-> Len(h) + 1, len |-> s.len + 1, cap |-> c],
                     heap |-> Append(h, a)]

\* part_000:73  GetWindowTextLengthW
TextLength(title) == IF title = "" THEN 0 ELSE 1

\* a callback that skips untitled windows only
SkippedMutant(w) == TextLength(w.title) = 0

\* part_000:67-89  the windows the callback leaves out: invisible, untitled, or
\* titled as one of the two system windows
Skipped(w) ==
    \/ ~w.visible
    \/ TextLength(w.title) = 0
    \/ w.title = "Program Manager" \/ w.title = "Default IME" \/ w.title = ""

\* part_000:65-93  EnumWindowsCallback: append the window unless it is skipped
EnumWindowsCallback(w, st) ==
    IF Skipped(w) THEN st ELSE AppendSlice(st, [HWND |-> w.hwnd, Title |-> w.title])

\* part_000:99  EnumWindows calls the callback for the first k windows, in order
RECURSIVE EnumWindows(_, _, _)
EnumWindows(ws, k, st) ==
    IF k = 0 THEN st ELSE EnumWindowsCallback(ws[k], EnumWindows(ws, k - 1, st))

\* a call that keeps appending to the list of the call before
ClearedMutant(list) == list

\* part_000:97  windowList = nil
Cleared(list) == NilSlice

\* part_000:96-104  GetWindowList over the enumeration ws; the enumeration fails
\* after k windows when ~ok
GetWindowList(ws, ok, k) ==
    /\ Len(listCalls) < MaxListCalls
    /\ LET st == EnumWindows(ws, IF ok THEN Len(ws) ELSE k,
                             [list |-> Cleared(windowList), heap |-> heap])
           ret == IF ok THEN st.list ELSE NilSlice
       IN  /\ windowList' = st.list
           /\ heap' = st.heap
           /\ listCalls' = Append(listCalls,
                                  [os |-> ws, err |-> ~ok, result |-> ret,
                                   returned |-> Elements(st.heap, ret)])
    /\ UNCHANGED <<sessionVars, capVars, nameCalls>>

InitWindows ==
    /\ NoSession
    /\ CaptureFrame("idle")
    /\ NameIdle
    /\ WindowsIdle

NextWindows ==
    /\ Len(listCalls) < MaxListCalls
    /\ \E ws \in Enumerations, ok \in BOOLEAN :
          \E k \in 0..Len(ws) : GetWindowList(ws, ok, k)

SpecWindows == InitWindows /\ [][NextWindows]_vars

(***************************************************************************)
(* Claims                                                                  *)
(***************************************************************************)

InFlight == {l \in Loops : pc[l] = "capture"}

\* C1: captures are strictly serialized: at most one CaptureWindow call is in
\* flight at any time, whatever starts, stops, expiries and ticks came before.
C1_CapturesSerialized == Cardinality(InFlight) <= 1

\* C2: file names are collision-free within a session: the successful saves of
\* one capture loop went to as many distinct paths as there were saves.
C2_NamesCollisionFree ==
    \A l \in Loops : pc[l] \in Steady => Cardinality(saved[l]) = captureCount[l]

InvalidConfig == selectedHWND = 0 \/ IntervalMs <= 0

StartReturns == uiPc \in {"start_body", "start_stop_locked"} /\ uiPc' = "idle"

\* C3: a start request issued in Idle with no window selected or a non-positive
\* interval is rejected: when the handler returns the state is Idle, and no
\* trigger is ever armed and no capture ever made under such settings.
C3_InvalidStartRejected ==
    /\ [][(StartReturns /\ InvalidConfig) => ~IsCapturing']_vars
    /\ [](InvalidConfig => \A l \in Loops : pc[l] \notin Steady)

\* C4: a start request that finds the state Capturing is a no-op: the handler
\* returns leaving the flag, the context, the cancel function, the set of
\* capture loops and their counters as they were.
C4_StartWhileCapturingNoOp ==
    [][(uiPc = "start_locked" /\ IsCapturing /\ uiPc' # uiPc) =>
          /\ uiPc' = "idle"
          /\ UNCHANGED <<IsCapturing, CaptureCtx, CaptureStop, ctxDone, nLoops, pc,
                         captureCount, fileSequenceCounter>>]_vars

\* C4 witness: a start request holds the lock while a session is capturing
C4_Witness ==
    /\ uiPc = "start_locked"
    /\ IsCapturing
    /\ \E l \in Loops : pc[l] \in Steady

\* the step in which the CaptureWindow call of loop l returns an error, and the
\* step in which the loop goes on after logging it
CaptureFails(l) == pc[l] = "capture" /\ pc'[l] \notin {"capture", "save"}
GoesOn(l) == pc[l] = "capture_failed" /\ pc'[l] # "capture_failed"

\* C5: a failed capture leaves the state flag and both counters unchanged and
\* the loop goes back to its wait point with the ticker and timer still armed.
C5_CaptureFailureNonFatal ==
    [][\A l \in Loops :
          (CaptureFails(l) \/ GoesOn(l)) =>
              /\ pc'[l] = IF CaptureFails(l) THEN "capture_failed" ELSE "select"
              /\ IsCapturing' = IsCapturing
              /\ captureCount'[l] = captureCount[l]
              /\ fileSequenceCounter'[l] = fileSequenceCounter[l]
              /\ timer'[l] = timer[l]
              /\ GoesOn(l) => waitCtx'[l] = CaptureCtx]_vars

\* C5 witness: a capture has just failed in a session that had a successful
\* save before, and the session is still Capturing
C5_Witness ==
    \E l \in Loops : pc[l] = "capture_failed" /\ captureCount[l] > 0 /\ IsCapturing

\* C6: with a duration set and no explicit stop, at most one further tick is
\* processed once the expiry trigger has fired.
C6_AtMostOneTickAfterExpiry ==
    \A l \in Loops : l \notin ctxDone => lateTicks[l] <= 1

\* C7: with no duration set the session never auto-stops: a capture loop leaves
\* its steady state only from the wait point on a cancelled context, and the
\* state flag is cleared only by a stop request or by a loop that has returned.
C7_NoAutoStopWithoutDuration ==
    [][/\ \A l \in Loops :
             (pc[l] \in Steady /\ pc'[l] \notin Steady /\ captureDuration[l] = 0) =>
                 (pc[l] = "select" /\ waitCtx[l] \in ctxDone)
       /\ (IsCapturing /\ ~IsCapturing') =>
             \/ uiPc \in {"stop_locked", "start_stop_locked"}
             \/ \E l \in Loops : pc[l] = "defer_locked"]_vars

\* C7 witness: an unbounded session is still capturing a minute after its start,
\* after a successful save
C7_Witness ==
    \E l \in Loops :
        /\ pc[l] = "select" /\ captureDuration[l] = 0 /\ captureCount[l] > 0
        /\ now >= SecondsPerMinute /\ IsCapturing

\* C8: after an explicit stop the loop of the stopped session observes the
\* cancellation: whenever it is at its wait point, it waits on a cancelled
\* context (also when a new start followed the stop).
C8_StoppedLoopObservesCancel ==
    \A l \in Loops : (l \in ctxDone /\ pc[l] = "select") => waitCtx[l] \in ctxDone

\* C9: the reporter is torn down with its session: once the capture loop has
\* finished, its reporter has terminated or waits on a cancelled context.
C9_ReporterTornDown ==
    \A l \in Loops : pc[l] = "done" => (repPc[l] # "wait" \/ repCtx[l] \in ctxDone)

TickStep(l) == pc[l] = "select" /\ pc'[l] = "capture"

\* C10: the FileSequenceCounter is reset to 0 at a tick exactly when the tick's
\* wall-clock second differs from that of the previous tick (the start, for the
\* first tick), and it never decreases anywhere else.
C10_ResetExactlyOnSecondChange ==
    [][\A l \in Loops :
          /\ TickStep(l) =>
                fileSequenceCounter'[l] =
                    IF tickC[l] # prevTick[l] THEN 0 ELSE fileSequenceCounter[l]
          /\ (pc[l] \in Steady /\ pc'[l] \in Steady /\ ~TickStep(l)) =>
                fileSequenceCounter'[l] >= fileSequenceCounter[l]]_vars

\* the steps in which the save of loop l returns an error, returns a path, and
\* in which the loop goes on after logging a save error
SaveFails(l) == pc[l] = "save" /\ pc'[l] = "save_failed"
SaveSucceeds(l) == pc[l] = "save" /\ pc'[l] = "select"
SaveLogged(l) == pc[l] = "save_failed" /\ pc'[l] # "save_failed"

\* C11: a failed save leaves both counters unchanged and the loop continues; a
\* successful save writes the file, adds exactly 1 to both counters and reports
\* the new count; the count starts at 0 and changes at no other step of the
\* session, so it is the number of successful saves since the session's start.
C11_CountersFollowSaves ==
    [][\A l \in Loops :
          /\ (SaveFails(l) \/ SaveLogged(l)) =>
                /\ captureCount'[l] = captureCount[l]
                /\ fileSequenceCounter'[l] = fileSequenceCounter[l]
                /\ captureCountLabel' = captureCountLabel
                /\ saved'[l] = saved[l]
          /\ SaveLogged(l) => pc'[l] = "select"
          /\ SaveSucceeds(l) =>
                /\ captureCount'[l] = captureCount[l] + 1
                /\ fileSequenceCounter'[l] = fileSequenceCounter[l] + 1
                /\ captureCountLabel' = captureCount'[l]
                /\ FileName(now, fileSequenceCounter[l]) \in saved'[l]
          /\ (pc[l] \notin Steady /\ pc'[l] \in Steady) => captureCount'[l] = 0
          /\ (pc[l] \in Steady /\ pc'[l] \in Steady /\ ~SaveSucceeds(l)) =>
                captureCount'[l] = captureCount[l]]_vars

\* C11 witness: a save has just failed in a session that had a successful save
\* before, and the label shows that one save
C11_Witness ==
    \E l \in Loops :
        pc[l] = "save_failed" /\ captureCount[l] = 1 /\ captureCountLabel = 1

\* C12: cancellation is cooperative: a capture or save in progress is never
\* interrupted, and a loop whose session was stopped exits at its next wait
\* point: the step it takes from the select is the return.
C12_CancelOnlyAtSelect ==
    [][\A l \in Loops :
          /\ (pc[l] \in {"capture", "save"} /\ pc'[l] # pc[l]) =>
                pc'[l] \in {"save", "capture_failed", "save_failed", "select"}
          /\ (pc[l] = "select" /\ l \in ctxDone /\ pc'[l] # "select") =>
                pc'[l] = "defer"]_vars

C14_BgraToRgba ==
    convResult = "image" =>
        /\ Len(imgPix) = width * height * BytesPerPixel
        /\ Len(pixelData) = width * height * BytesPerPixel
        /\ \A i \in 0..(width * height - 1) :
              /\ imgPix[4 * i + 1] = pixelData[4 * i + 3]
              /\ imgPix[4 * i + 2] = pixelData[4 * i + 2]
              /\ imgPix[4 * i + 3] = pixelData[4 * i + 1]
              /\ imgPix[4 * i + 4] = pixelData[4 * i + 4]
        /\ written = [k \in 1..(width * height) |-> k - 1]

\* C14 witness: a 2 x 2 buffer whose rows differ has been converted
C14_Witness ==
    /\ convResult = "image"
    /\ width = 2 /\ height = 2
    /\ pixelData[1] # pixelData[2 * BytesPerPixel + 1]

\* C18: no graphics resource escapes a CaptureWindow call: no resource is ever
\* released more often than acquired, and when the call has returned, on any
\* path, the release call of every resource it acquired has been made exactly
\* once.
C18_ResourcesReleased ==
    \A r \in Resources :
        /\ released[r] <= acquired[r]
        /\ acquired[r] <= 1
        /\ cwPc = "returned" => released[r] = acquired[r]

\* C18 witness: the call failed at the pixel extraction, holding all four resources
C18_Witness ==
    /\ cwPc = "returned"
    /\ cwResult = "error"
    /\ \A r \in Resources : acquired[r] = 1

\* positions of an OS call in the call log (none when it was not made)
Pos(call) == {i \in 1..Len(calls) : calls[i] = call}
Before(a, b) == \A i \in Pos(a), j \in Pos(b) : i < j

\* C19: the primary render is attempted first and once; the block copy is
\* attempted exactly when the primary render reported failure, right after it;
\* the conversion starts right after the last strategy attempted, and what
\* CaptureWindow returns is what the conversion returned.
C19_PrimaryThenFallback ==
    /\ \A i \in Pos("BitBlt") : i > 1 /\ calls[i - 1] = "PrintWindow failed"
    /\ \A i \in Pos("PrintWindow failed") :
          cwPc # "BitBlt" => (i < Len(calls) /\ calls[i + 1] = "BitBlt")
    /\ \A i \in Pos("GetDesktopWindow") :
          i > 1 /\ calls[i - 1] \in {"PrintWindow", "BitBlt"}
    /\ Cardinality(Pos("PrintWindow") \cup Pos("PrintWindow failed")) <= 1
    /\ Cardinality(Pos("BitBlt")) <= 1
    /\ (cwPc = "returned" /\ convResult # "none") => cwResult = convResult

\* C19 witness: a capture that fell back to the block copy returned an image
C19_Witness ==
    /\ cwPc = "returned"
    /\ cwResult = "image"
    /\ Pos("BitBlt") # {}

\* C20: on a path that selected the bitmap, the restore of the previous object
\* comes before the memory DC is deleted and before the window DC is released,
\* neither of which happens without it; and no deferred call, a failed restore
\* included, changes what the call returns.
C20_RestoreBeforeDestroy ==
    /\ [](Pos("SelectObject") # {} =>
            /\ Before("RestoreObject", "DeleteDC")
            /\ Before("RestoreObject", "ReleaseDC")
            /\ (Pos("DeleteDC") # {} \/ Pos("ReleaseDC") # {}) => Pos("RestoreObject") # {})
    /\ [][cwPc = "defers" => cwResult' = cwResult]_vars

\* C20 witness: a capture returned an image although the restore failed (the
\* bitmap is still selected)
C20_Witness ==
    /\ cwPc = "returned"
    /\ cwResult = "image"
    /\ oldBitmap = StockObject
    /\ selected = "hBitmap"

\* the number a sequence of decimal digits writes
RECURSIVE Decimal(_)
Decimal(d) == IF d = <<>> THEN 0 ELSE 10 * Decimal(SubSeq(d, 1, Len(d) - 1)) + d[Len(d)]

\* C15: the path is saveDir, then screenshot_<timestamp>_<counter>.png with the
\* counter written in decimal on at least four digits (exactly four below
\* 10000); calls with the same arguments and clock reading derive the same
\* path, and calls that differ only in the counter derive different paths.
C15_FileNamePure ==
    \A i, j \in 1..Len(nameCalls) :
        LET a == nameCalls[i]
            b == nameCalls[j]
        IN  /\ a.filePath = <<a.saveDir, "/", "screenshot_", Timestamp(a.time), "_",
                              a.filePath[6], ".png">>
            /\ Len(a.filePath[6]) >= PadWidth
            /\ a.counter < 10000 => Len(a.filePath[6]) = PadWidth
            /\ \A k \in 1..Len(a.filePath[6]) : a.filePath[6][k] \in 0..9
            /\ Decimal(a.filePath[6]) = a.counter
            /\ (a.saveDir = b.saveDir /\ a.time = b.time /\ a.counter = b.counter)
                  => a.filePath = b.filePath
            /\ (a.saveDir = b.saveDir /\ Timestamp(a.time) = Timestamp(b.time)
                  /\ a.counter # b.counter) => a.filePath # b.filePath

\* C15 witness: two calls in the same second whose counters agree in their last
\* four digits
C15_Witness ==
    /\ Len(nameCalls) = 2
    /\ nameCalls[1].saveDir = nameCalls[2].saveDir
    /\ nameCalls[1].time = nameCalls[2].time
    /\ nameCalls[1].counter = 7
    /\ nameCalls[2].counter = 10007

\* the windows of an enumeration that are visible, titled and not excluded, in
\* enumeration order, as {handle, title}
Listed(ws) ==
    LET keep == SelectSeq(ws, LAMBDA w : w.visible /\ w.title # ""
                                          /\ w.title \notin {"Program Manager", "Default IME"})
    IN  [i \in 1..Len(keep) |-> [HWND |-> keep[i].hwnd, Title |-> keep[i].title]]

\* C16: a GetWindowList call whose enumeration succeeded returned exactly the
\* visible, titled, non-excluded windows in enumeration order, repeats kept; a
\* call whose enumeration failed returned an error and no windows.
C16_ListIsFilteredEnumeration ==
    \A i \in 1..Len(listCalls) :
        LET c == listCalls[i]
        IN  /\ ~c.err => c.returned = Listed(c.os)
            /\ c.err => (c.result = NilSlice /\ c.returned = <<>>)

\* C16 witness: a call returned the same listable window twice, having skipped
\* nothing, after an earlier call
C16_Witness ==
    /\ Len(listCalls) = 2
    /\ ~listCalls[2].err
    /\ Len(listCalls[2].os) = 2
    /\ listCalls[2].os[1] = listCalls[2].os[2]
    /\ Len(listCalls[2].returned) = 2

\* C17: GetWindowList is re-invocable: what a call returned still reads as it
\* did at its return after any later call, and two successful calls over the
\* same enumeration returned equal sequences, whatever the calls before them
\* had listed.
C17_Reinvocable ==
    \A i, j \in 1..Len(listCalls) :
        /\ Elements(heap, listCalls[i].result) = listCalls[i].returned
        /\ (listCalls[i].os = listCalls[j].os /\ ~listCalls[i].err /\ ~listCalls[j].err)
              => Elements(heap, listCalls[i].result) = Elements(heap, listCalls[j].result)

\* C17 witness: two successful calls over the same enumeration, which lists two
\* windows
C17_Witness ==
    /\ Len(listCalls) = 2
    /\ listCalls[1].os = listCalls[2].os
    /\ ~listCalls[1].err /\ ~listCalls[2].err
    /\ Len(listCalls[1].returned) = 2

\* the session of the latest start runs undisturbed: its settings are valid, its
\* loop has been launched and has not returned (no expiry, no validation
\* failure), and no stop request has cancelled its context
Undisturbed(l) ==
    /\ l = nLoops
    /\ ~InvalidConfig
    /\ pc[l] \in {"init"} \cup Steady
    /\ l \notin ctxDone

\* C21: the state is never reset to Idle by a task of an earlier session: while
\* the latest session runs undisturbed the state flag reads Capturing.
C21_NoResetByEarlierSession ==
    \A l \in Loops : Undisturbed(l) => IsCapturing

\* C22: CaptureWindow never aborts the capture loop: whatever rectangle the OS
\* reports, the call returns an image or an error value.
C22_CaptureReturnsImageOrError ==
    cwPc = "returned" => cwResult \in {"image", "error"}

====
